---- MODULE Spec2Model ----
(***************************************************************************)
(* The instance lock of the rewards-eligibility oracle                     *)
(* (src/utils/lock_manager.py): LockManager objects of several processes   *)
(* contend for one lock file through open(path, "w") and                   *)
(* fcntl.flock(LOCK_EX | LOCK_NB).                                         *)
(*                                                                         *)
(* The credential resolver of the same process (CredentialManager of        *)
(* src/utils/configuration.py) turns the value of                          *)
(* GOOGLE_APPLICATION_CREDENTIALS into credentials; its variables come      *)
(* second and take no part in the lock.                                    *)
(*                                                                         *)
(* The lock file is a sequence of tokens.  A token is one character of the *)
(* file ("=", "\n", a decimal digit) or an indivisible word (a key, a host *)
(* name, a timestamp).  Every open file description has its own position,  *)
(* and a write replaces the tokens from that position on, as write(2) does.*)
(***************************************************************************)
EXTENDS Integers, Sequences, FiniteSets, TLC

VARIABLES
    dirExists,          \* lock_file_path.parent exists
    fileExists,         \* lock_file_path exists
    content,            \* the tokens of the lock file
    lockOwner,          \* the manager whose open file holds the flock, 0 if none
    fdOpen,             \* fdOpen[m]: the file that manager m opened is still open
    fdPos,              \* fdPos[m]: the position of that open file
    lock_file_handle,   \* lock_file_handle[m]: self.lock_file_handle is not None
    pc,                 \* pc[m]: where manager m stands in its with statement
    excInfo,            \* excInfo[m]: the exception the protected region raised
    holder_info,        \* holder_info[m]: the local of m's BlockingIOError handler
    ret,                \* what the call that this step completed gave its caller
    orphan,             \* orphan[m]: a file m opened earlier and no longer
                        \* refers to is still open and holds the lock
    reentered,          \* reentered[m]: m runs an __enter__ called inside its
                        \* own with statement
    contended,          \* contended[m]: another manager was Held when m's
                        \* running __enter__ opened the file
    lock_file_path,     \* lock_file_path[m]: self.lock_file_path of manager
                        \* m, "<none>" while no such object exists
    cfg,                \* os.environ["GOOGLE_APPLICATION_CREDENTIALS"], as
                        \* tokens; << >> when it is not set
    cpc,                \* where the credential manager stands in its call
    creds_data,         \* the parsed descriptor the call works on
    clears,             \* the calls of creds_data.clear() the call has made
    pending,            \* the outcome the call carries through its finally
    credentials,        \* the cached credential object, 0 for None
    defaultCalls,       \* the calls of google.auth.default() so far
    staged,             \* the file /tmp/gcp-credentials.json
    cret                \* what the credential call that this step
                        \* completed gave its caller

lockVars == <<dirExists, fileExists, content, lockOwner, fdOpen, fdPos,
              lock_file_handle, pc, excInfo, holder_info, ret,
              orphan, reentered, contended, lock_file_path>>

credVars == <<cfg, cpc, creds_data, clears, pending, credentials,
              defaultCalls, staged, cret>>

vars == <<lockVars, credVars>>

-----------------------------------------------------------------------------
(* Bounds *)

NumManagers == 2

NumTimestamps == 2

\* The secret values a descriptor field can hold.
NumSecrets == 2

\* The calls of google.auth.default() a process makes at most.
MaxCalls == 2

Managers == 1 .. NumManagers

\* The clock readings datetime.now() can give.
Timestamps == { "T" \o ToString(i) : i \in 1 .. NumTimestamps }

-----------------------------------------------------------------------------
(* The environment of a manager *)

\* The process a manager lives in: manager 1 has a process of its own, the
\* others live two to a process, as the two managers of a test do.
ProcOf(m) == (m + 2) \div 2

Procs == { ProcOf(m) : m \in Managers }

\* os.getpid(): process identifiers of different decimal lengths.
getpid(m) == IF ProcOf(m) = 1 THEN 7 ELSE 4000 + ProcOf(m)

\* socket.gethostname(): one host per process (one container each).
gethostname(m) == "host" \o ToString(ProcOf(m))

\* The f-string conversion of an integer: its decimal digits.
RECURSIVE Str(_)
Str(n) == IF n < 10 THEN << ToString(n) >>
          ELSE Append(Str(n \div 10), ToString(n % 10))

-----------------------------------------------------------------------------
(* Files *)

NL == "\n"

\* write(2) of data at position pos of a file holding c: the tokens before pos
\* stay, data replaces what it covers, what lies beyond data stays.
WriteAt(c, pos, data) ==
    LET end == pos + Len(data)
    IN  SubSeq(c, 1, pos) \o data \o SubSeq(c, end + 1, Len(c))

\* The three lines _write_lock_metadata composes.
Metadata(m, ts) ==
    << "pid", "=" >> \o Str(getpid(m)) \o << NL >>
    \o << "hostname", "=", gethostname(m), NL >>
    \o << "timestamp", "=", ts, NL >>

\* What a lock file can hold when the first manager starts: nothing, the
\* metadata a holder that died long ago left (no trailing newline, as in the
\* stale-lock test), or text that is no metadata.
StaleContents ==
    { << >>,
      << "pid", "=", "9", "9", "9", NL, "hostname", "=", "old-host", NL,
         "timestamp", "=", "T0" >>,
      << "garbage", NL, "=", NL >> }

-----------------------------------------------------------------------------
(* get_lock_holder_info *)

\* str.strip(): the text without its leading and trailing whitespace.
RECURSIVE LStrip(_)
LStrip(s) == IF s # << >> /\ Head(s) = NL THEN LStrip(Tail(s)) ELSE s

RECURSIVE RStrip(_)
RStrip(s) == IF s # << >> /\ s[Len(s)] = NL
             THEN RStrip(SubSeq(s, 1, Len(s) - 1)) ELSE s

Strip(s) == RStrip(LStrip(s))

\* The index of the first occurrence of token t in s, 0 if there is none.
RECURSIVE Find(_, _, _)
Find(s, t, i) == IF i > Len(s) THEN 0
                 ELSE IF s[i] = t THEN i ELSE Find(s, t, i + 1)

\* str.split("\n"): the lines between the newlines; one empty line for an
\* empty text.
RECURSIVE Split(_)
Split(s) ==
    LET i == Find(s, NL, 1)
    IN  IF i = 0 THEN << s >>
        ELSE << SubSeq(s, 1, i - 1) >> \o Split(SubSeq(s, i + 1, Len(s)))

\* The loop over the lines: a line holding "=" sets metadata[key] = value,
\* split at its first "="; a later line overrides an earlier one.
RECURSIVE ParseLines(_, _)
ParseLines(lines, metadata) ==
    IF lines = << >> THEN metadata
    ELSE LET line == Head(lines)
             i    == Find(line, "=", 1)
         IN  IF i = 0 THEN ParseLines(Tail(lines), metadata)
             ELSE ParseLines(Tail(lines),
                      (SubSeq(line, 1, i - 1) :> SubSeq(line, i + 1, Len(line)))
                          @@ metadata)

None == [isNone |-> TRUE, md |-> << >>]

Some(metadata) == [isNone |-> FALSE, md |-> metadata]

\* The value get_lock_holder_info returns in the current state.
get_lock_holder_info ==
    IF ~fileExists THEN None
    ELSE Some(ParseLines(Split(Strip(content)), << >>))

\* The value of field key of a holder info, << >> if it has none.
Field(info, key) ==
    IF info.isNone \/ << key >> \notin DOMAIN info.md THEN << >>
    ELSE info.md[<< key >>]

\* A call of manager m ends: kind says how (a value returned, an exception
\* raised to the caller), info is the holder info it carries, if any.
Ret(m, kind, info) == [by |-> m, kind |-> kind, info |-> info]

NoRet == Ret(0, "none", None)

-----------------------------------------------------------------------------
(* The credential input and its JSON text *)

\* A token of a text: a string literal of JSON (quoted), or punctuation, a
\* bare word, a file path (not quoted).
Q(s) == [q |-> TRUE, s |-> s]

P(s) == [q |-> FALSE, s |-> s]

Secrets == { "SECRET" \o ToString(i) : i \in 1 .. NumSecrets }

Variants == { "service_account", "authorized_user" }

\* The fields a descriptor of a variant must have.
RequiredFields(t) ==
    IF t = "service_account" THEN << "private_key", "client_email", "project_id" >>
    ELSE << "client_id", "client_secret", "refresh_token" >>

SecretKeys == { "private_key", "client_secret", "refresh_token" }

\* The order in which the members of an object are written.
KeyOrder ==
    << "type", "private_key", "client_email", "project_id",
       "client_id", "client_secret", "refresh_token" >>

\* A mapping without keys: what dict.clear() leaves.
EmptyMap == << >>

\* json.dumps of a mapping of strings: the members in order, each preceded by
\* a comma, ...
RECURSIVE DumpMembers(_, _)
DumpMembers(obj, i) ==
    IF i > Len(KeyOrder) THEN << >>
    ELSE LET k == KeyOrder[i]
         IN  (IF k \in DOMAIN obj
              THEN << P(","), Q(k), P(":"), Q(obj[k]) >> ELSE << >>)
             \o DumpMembers(obj, i + 1)

\* ... the first comma dropped, between braces.
Dump(obj) ==
    LET members == DumpMembers(obj, 1)
    IN  << P("{") >> \o (IF members = << >> THEN << >> ELSE Tail(members))
        \o << P("}") >>

\* The text between the braces of an object.
Body(text) == SubSeq(text, 2, Len(text) - 1)

\* json.loads accepts the text: an object of string members.
WellFormed(text) ==
    /\ Len(text) >= 2
    /\ text[1] = P("{")
    /\ text[Len(text)] = P("}")
    /\ LET body == Body(text)
       IN  \/ body = << >>
           \/ /\ Len(body) % 4 = 3
              /\ \A i \in 1 .. Len(body) :
                    CASE i % 4 = 1 -> body[i].q
                      [] i % 4 = 2 -> body[i] = P(":")
                      [] i % 4 = 3 -> body[i].q
                      [] OTHER     -> body[i] = P(",")

\* json.loads of a text it accepts: the mapping of its members, a later
\* member overriding an earlier one of the same name.
Loads(text) ==
    LET body  == Body(text)
        count == (Len(body) + 1) \div 4
        keys  == { body[4 * j - 3].s : j \in 1 .. count }
        last(k) == CHOOSE j \in 1 .. count :
                      /\ body[4 * j - 3].s = k
                      /\ \A h \in 1 .. count : body[4 * h - 3].s = k => h <= j
    IN  [k \in keys |-> body[4 * last(k) - 1].s]

\* The descriptors the inputs are made of: a type, or none, and for each field
\* of the variant (of service_account when the type is no variant) no member,
\* an empty value or a value; the value of a secret field is a secret.
TypeChoices == Variants \cup { "unsupported", "<none>" }

ValuesOf(k) == IF k \in SecretKeys THEN Secrets ELSE { k \o "-value" }

FieldChoices(k) == { "<none>", "" } \cup ValuesOf(k)

Descriptor(t, c) ==
    LET fields == RequiredFields(t)
        at(k)  == CHOOSE i \in 1 .. 3 : fields[i] = k
        keys   == (IF t = "<none>" THEN {} ELSE { "type" })
                  \cup { fields[i] : i \in { j \in 1 .. 3 : c[j] # "<none>" } }
    IN  [k \in keys |-> IF k = "type" THEN t ELSE c[at(k)]]

Descriptors ==
    UNION { { Descriptor(t, << c1, c2, c3 >>) :
                c1 \in FieldChoices(RequiredFields(t)[1]),
                c2 \in FieldChoices(RequiredFields(t)[2]),
                c3 \in FieldChoices(RequiredFields(t)[3]) } :
            t \in TypeChoices }

\* Texts json.loads rejects: those of the tests, and the text of a key that
\* was cut off.
Malformed ==
    { << P("{"), Q("invalid"), P(":"), P("json}") >>,
      << P("{"), P("not"), P("valid"), P("json}") >> }
    \cup { << P("{"), Q("private_key"), P(":"), Q(v) >> : v \in Secrets }

ExistingPath == << P("/path/to/creds.json") >>

MissingPath == << P("/nonexistent/path/creds.json") >>

\* The path of the file the inline credentials are written to.
StagedPath == << P("/tmp/gcp-credentials.json") >>

Unset == << >>

\* The values GOOGLE_APPLICATION_CREDENTIALS can have when the process
\* starts.
Inputs ==
    { Dump(d) : d \in Descriptors } \cup Malformed
    \cup { ExistingPath, MissingPath, Unset }

\* The value is taken for inline JSON, not for a path.
IsInline(value) == value # << >> /\ value[1] = P("{")

\* The strings of a text.
Words(text) == { text[i].s : i \in 1 .. Len(text) }

\* The words of a message.
MessageWords(msg) == { msg[i] : i \in 1 .. Len(msg) }

-----------------------------------------------------------------------------
(* _parse_and_validate_credentials_json *)

\* Mutant: the mapping returned has the members of the object with the
\* secret values blanked.
SuccessWithoutSecrets(value) ==
    [ok |-> TRUE,
     value |-> [k \in DOMAIN value |->
                   IF k \in SecretKeys THEN "" ELSE value[k]],
     msg |-> << >>]

Success(value) == [ok |-> TRUE, value |-> value, msg |-> << >>]

Failure(msg) == [ok |-> FALSE, value |-> EmptyMap, msg |-> msg]

\* Mutant: the message of a parse failure quotes the text.
InvalidJsonMessageEchoes(text) ==
    << "Invalid", "credentials", "JSON", "format", ":" >>
    \o [i \in 1 .. Len(text) |-> text[i].s]

InvalidJsonMessage(text) == << "Invalid", "credentials", "JSON", "format" >>

UnsupportedTypeMessage == << "Unsupported", "credential", "type" >>

IncompleteMessage(t) == << "Incomplete", t, "credentials" >>

\* The declared type of a parsed object.
TypeOf(d) == IF "type" \in DOMAIN d THEN d["type"] ELSE "<none>"

\* A required field is missing or empty.
Incomplete(d) ==
    \E i \in 1 .. 3 :
        LET k == RequiredFields(TypeOf(d))[i]
        IN  k \notin DOMAIN d \/ d[k] = ""

\* Mutant: the required fields are checked before the type.
ParseAndValidateFieldsFirst(text) ==
    IF ~WellFormed(text) THEN Failure(InvalidJsonMessage(text))
    ELSE LET d == Loads(text)
         IN  IF Incomplete(d) THEN Failure(IncompleteMessage(TypeOf(d)))
             ELSE IF TypeOf(d) \notin Variants
                  THEN Failure(UnsupportedTypeMessage)
             ELSE Success(d)

\* Parse, then the type, then the required fields of the type.
ParseAndValidate(text) ==
    IF ~WellFormed(text) THEN Failure(InvalidJsonMessage(text))
    ELSE LET d == Loads(text)
         IN  IF TypeOf(d) \notin Variants THEN Failure(UnsupportedTypeMessage)
             ELSE IF Incomplete(d) THEN Failure(IncompleteMessage(TypeOf(d)))
             ELSE Success(d)

-----------------------------------------------------------------------------
(* The outcomes of the credential calls *)

\* How a call, or a part of one, ends: kind "ok", "warning" or the class of
\* the exception raised; msg the words of the message; cause the text of the
\* exception the library raised underneath, if any; value the credential
\* object, 0 for none.
Outcome(kind, msg, cause, value) ==
    [kind |-> kind, msg |-> msg, cause |-> cause, value |-> value]

NoOutcome == Outcome("none", << >>, << >>, 0)

\* The end of a call of operation op.
Cret(op, outcome) ==
    [op |-> op, kind |-> outcome.kind, msg |-> outcome.msg,
     cause |-> outcome.cause, value |-> outcome.value]

NoCret == Cret("none", NoOutcome)

\* What the library's constructor of a credential does with the fields of d:
\* it builds the object, or raises with a text that may quote the fields.
SdkErrorTexts(d) ==
    { << "SDK", "Error" >> }
    \cup { << "SDK", "Error", ":", d[k] >> : k \in SecretKeys \cap DOMAIN d }

SdkOutcomes(d) ==
    { [raises |-> FALSE, text |-> << >>] }
    \cup { [raises |-> TRUE, text |-> t] : t \in SdkErrorTexts(d) }

InvalidVariantMessage(t) ==
    IF t = "service_account"
    THEN << "Invalid", "service", "account", "credentials" >>
    ELSE << "Invalid", "authorized", "user", "credentials" >>

\* Mutant: the service account error carries the text of the library's.
ServiceAccountFailureEchoes(text) ==
    Outcome("ValueError", InvalidVariantMessage("service_account") \o text,
            text, 0)

\* _setup_service_account_credentials_from_dict when the library raises:
\* ValueError with a generic message.
ServiceAccountFailure(text) ==
    Outcome("ValueError", InvalidVariantMessage("service_account"), text, 0)

\* _setup_user_credentials_from_dict when the library raises: the exception
\* of the library goes on to the caller as it is.
AuthorizedUserFailure(text) == Outcome("Exception", text, text, 0)

\* The construction of the credential object from a validated descriptor.
BuildCredential(d, sdk) ==
    IF ~sdk.raises THEN Outcome("ok", << >>, << >>, 1)
    ELSE IF TypeOf(d) = "service_account" THEN ServiceAccountFailure(sdk.text)
    ELSE AuthorizedUserFailure(sdk.text)

\* The texts google.auth.default() raises with; some quote a secret of the
\* credentials it read.
DiscoveryErrorTexts ==
    { << "Auth", "failed" >> }
    \cup { << "Failed", "to", "load", ":", v >> : v \in Secrets }

\* Mutant: the error of get_google_credentials carries the text of the
\* library's.
DiscoveryFailureMessageEchoes(text) ==
    << "Failed", "to", "load", "Google", "Cloud", "credentials", ":" >> \o text

DiscoveryFailureMessage(text) ==
    << "Failed", "to", "load", "Google", "Cloud", "credentials", ".",
       "Check", "GOOGLE_APPLICATION_CREDENTIALS", "configuration" >>

\* The text occurs in the message, word after word.
Occurs(text, msg) ==
    /\ text # << >>
    /\ \E i \in 0 .. Len(msg) - Len(text) :
           \A j \in 1 .. Len(text) : msg[i + j] = text[j]

\* The staging file before the process has written it.
NoFile == [exists |-> FALSE, content |-> << >>, mode |-> "none"]

\* The mode open(path, "w") creates a file with under the usual umask.
DefaultMode == "644"

\* Mutant: the file is left with the mode it was created with.
ModeKept(mode) == mode

\* temp_path.chmod(0o600)
ModeAfterChmod(mode) == "600"

\* The credential manager at rest: nothing configured, nothing done.
CredQuiet ==
    /\ cfg = Unset
    /\ cpc = "idle"
    /\ creds_data = EmptyMap
    /\ clears = 0
    /\ pending = NoOutcome
    /\ credentials = 0
    /\ defaultCalls = 0
    /\ staged = NoFile
    /\ cret = NoCret

\* The credential manager of a process that starts with one of the inputs.
CredInit ==
    /\ cfg \in Inputs
    /\ cpc = "idle"
    /\ creds_data = EmptyMap
    /\ clears = 0
    /\ pending = NoOutcome
    /\ credentials = 0
    /\ defaultCalls = 0
    /\ staged = NoFile
    /\ cret = NoCret

-----------------------------------------------------------------------------
(* __init__ *)

\* Path("/app/data/oracle.lock"): the lock file of the model.
DefaultPath == "/app/data/oracle.lock"

\* No LockManager object: its constructor has not run, or has raised.
NoPath == "<none>"

NoneArg == [type |-> "NoneType", value |-> ""]

\* What a caller can pass as lock_file_path: nothing, a Path, and values
\* that are no Path (the string of the test, a number).
Arguments ==
    { NoneArg,
      [type |-> "Path", value |-> DefaultPath],
      [type |-> "str", value |-> DefaultPath],
      [type |-> "int", value |-> "7"] }

\* Mutant: the type of the argument is not looked at.
RejectedNever(arg) == FALSE

\* lock_file_path is not None and not isinstance(lock_file_path, Path)
Rejected(arg) == arg # NoneArg /\ arg.type # "Path"

\* lock_file_path or Path("/app/data/oracle.lock")
PathOr(arg) == IF arg = NoneArg THEN DefaultPath ELSE arg.value

\* The text of the TypeError: it names the type that was passed.
TypeErrorMessage(arg) ==
    << "lock_file_path", "must", "be", "a", "Path", "object", ",", "got",
       arg.type >>

\* The manager m exists.
Exists(m) == lock_file_path[m] # NoPath

-----------------------------------------------------------------------------
(* The initial states *)

\* The lock file and the managers before any manager has done anything.
FilesInit ==
    /\ dirExists \in BOOLEAN
    /\ fileExists \in BOOLEAN
    /\ fileExists => dirExists
    /\ content \in StaleContents
    /\ ~fileExists => content = << >>
    /\ lockOwner = 0
    /\ fdOpen = [m \in Managers |-> FALSE]
    /\ fdPos = [m \in Managers |-> 0]
    /\ lock_file_handle = [m \in Managers |-> FALSE]
    /\ pc = [m \in Managers |-> "idle"]
    /\ excInfo = [m \in Managers |-> "none"]
    /\ holder_info = [m \in Managers |-> None]
    /\ ret = NoRet
    /\ orphan = [m \in Managers |-> FALSE]
    /\ reentered = [m \in Managers |-> FALSE]
    /\ contended = [m \in Managers |-> FALSE]

\* Every manager has been constructed on the lock file.
AllConstructed ==
    lock_file_path = [m \in Managers |-> DefaultPath]

\* The managers exist, none is in its with statement.
LockInit == FilesInit /\ AllConstructed

Init == LockInit /\ CredQuiet

-----------------------------------------------------------------------------
(* The operating system's side of open, flock and close *)

\* Mutant: the lock is asked for in a mode that never conflicts.
FlockGrantedAlways(m) == TRUE

\* Mutant: the lock is never given.
FlockGrantedNever(m) == FALSE

\* flock(LOCK_EX | LOCK_NB) on m's open file succeeds when no other open file
\* holds the lock on the file; a file m opened earlier is another open file.
FlockGranted(m) == lockOwner = 0 \/ (lockOwner = m /\ ~orphan[m])

\* Mutant: unlocking and closing leave the lock with its owner.
OwnerAfterDropKept(m) == lockOwner

\* Mutant: the lock is a lock of the file, not of the open file, and closing
\* any open file of it drops the lock.
OwnerAfterDropAny(m) == 0

\* The lock's owner after m's open file is closed or unlocked: the lock goes
\* with the open file that holds it.
OwnerAfterDrop(m) == IF lockOwner = m /\ ~orphan[m] THEN 0 ELSE lockOwner

-----------------------------------------------------------------------------
(* __enter__ *)

\* Mutant: the parent directory is not created.
DirAfterMkdirKept == dirExists

\* mkdir(parents=True, exist_ok=True): the parent directory exists afterwards,
\* created with its own parents if it did not.
DirAfterMkdir == TRUE

\* mkdir(parents=True, exist_ok=True) and open(path, "w"): the file is created
\* or truncated at once, before any lock is asked for.
ContentAfterOpen == << >>

\* The slot of m refers to an open file that holds the lock.
SlotHoldsLock(m) ==
    lock_file_handle[m] /\ fdOpen[m] /\ lockOwner = m /\ ~orphan[m]

\* self.lock_file_handle = open(...) rebinds the slot.  The file the slot
\* referred to is closed when the interpreter reclaims it: at once where
\* objects are reference counted and nothing else refers to the file, later
\* or never otherwise.  Until then it keeps the lock it holds.
Open(m) ==
    /\ dirExists' = DirAfterMkdir
    /\ fileExists' = TRUE
    /\ content' = ContentAfterOpen
    /\ fdOpen' = [fdOpen EXCEPT ![m] = TRUE]
    /\ fdPos' = [fdPos EXCEPT ![m] = 0]
    /\ lock_file_handle' = [lock_file_handle EXCEPT ![m] = TRUE]
    /\ IF SlotHoldsLock(m)
       THEN \E reclaimed \in BOOLEAN :
               /\ lockOwner' = IF reclaimed THEN 0 ELSE lockOwner
               /\ orphan' = [orphan EXCEPT ![m] = ~reclaimed]
       ELSE UNCHANGED <<lockOwner, orphan>>
    /\ contended' = [contended EXCEPT ![m] =
                        \E a \in Managers \ {m} : pc[a] \in { "held", "exiting" }]
    /\ pc' = [pc EXCEPT ![m] = "opened"]
    /\ ret' = NoRet
    /\ UNCHANGED <<excInfo, holder_info, lock_file_path, credVars>>

\* A manager enters its with statement from outside of it.
EnterOpen(m) ==
    /\ Exists(m)
    /\ pc[m] = "idle"
    /\ Open(m)
    /\ UNCHANGED reentered

\* A manager calls __enter__ again inside its own with statement.
Reenter(m) ==
    /\ pc[m] = "held"
    /\ Open(m)
    /\ reentered' = [reentered EXCEPT ![m] = TRUE]

\* Mutant: the lock is asked for without LOCK_NB, so the call returns only
\* once the lock is granted.
EnterFlockBlocking(m) ==
    /\ pc[m] = "opened"
    /\ FlockGranted(m)
    /\ lockOwner' = m
    /\ pc' = [pc EXCEPT ![m] = "locked"]
    /\ ret' = NoRet
    /\ UNCHANGED <<dirExists, fileExists, content, fdOpen, fdPos,
                   lock_file_handle, excInfo, holder_info,
                   orphan, reentered, contended,
                   credVars, lock_file_path>>

\* fcntl.flock(fileno, LOCK_EX | LOCK_NB): the lock, or BlockingIOError.
EnterFlock(m) ==
    /\ pc[m] = "opened"
    /\ IF FlockGranted(m)
       THEN /\ lockOwner' = m
            /\ pc' = [pc EXCEPT ![m] = "locked"]
       ELSE /\ lockOwner' = lockOwner
            /\ pc' = [pc EXCEPT ![m] = "blocked"]
    /\ ret' = NoRet
    /\ UNCHANGED <<dirExists, fileExists, content, fdOpen, fdPos,
                   lock_file_handle, excInfo, holder_info,
                   orphan, reentered, contended,
                   credVars, lock_file_path>>

\* _write_lock_metadata: write and flush the three lines through the handle.
write_lock_metadata(m) ==
    /\ pc[m] = "locked"
    /\ \E ts \in Timestamps :
          LET metadata == Metadata(m, ts)
          IN  /\ content' = WriteAt(content, fdPos[m], metadata)
              /\ fdPos' = [fdPos EXCEPT ![m] = @ + Len(metadata)]
    /\ pc' = [pc EXCEPT ![m] = "written"]
    /\ ret' = NoRet
    /\ UNCHANGED <<dirExists, fileExists, lockOwner, fdOpen,
                   lock_file_handle, excInfo, holder_info,
                   orphan, reentered, contended,
                   credVars, lock_file_path>>

\* logger.info(...); return self
EnterReturn(m) ==
    /\ pc[m] = "written"
    /\ pc' = [pc EXCEPT ![m] = "held"]
    /\ ret' = Ret(m, "acquired", None)
    /\ reentered' = [reentered EXCEPT ![m] = FALSE]
    /\ contended' = [contended EXCEPT ![m] = FALSE]
    /\ UNCHANGED <<dirExists, fileExists, content, lockOwner, fdOpen, fdPos,
                   lock_file_handle, excInfo, holder_info, orphan,
                   credVars, lock_file_path>>

\* except BlockingIOError: holder_info = self.get_lock_holder_info(), which
\* goes into error_msg.
EnterBlockedInfo(m) ==
    /\ pc[m] = "blocked"
    /\ holder_info' = [holder_info EXCEPT ![m] = get_lock_holder_info]
    /\ pc' = [pc EXCEPT ![m] = "cleanup"]
    /\ ret' = NoRet
    /\ UNCHANGED <<dirExists, fileExists, content, lockOwner, fdOpen, fdPos,
                   lock_file_handle, excInfo,
                   orphan, reentered, contended,
                   credVars, lock_file_path>>

\* Mutant: the handler raises without closing the handle.
HandleLeftOpen(m) == fdOpen[m]

\* The clean-up of the BlockingIOError handler: close the handle and empty
\* the slot when the slot is set.
HandleOpenAfterCleanup(m) == IF lock_file_handle[m] THEN FALSE ELSE fdOpen[m]

SlotAfterCleanup(m) == FALSE

\* ... then raise LockAcquisitionError(error_msg): to the caller of the with
\* statement, or into the body of the with statement the call was made in.
EnterBlockedRaise(m) ==
    /\ pc[m] = "cleanup"
    /\ fdOpen' = [fdOpen EXCEPT ![m] = HandleOpenAfterCleanup(m)]
    /\ fdPos' = [fdPos EXCEPT ![m] = IF HandleOpenAfterCleanup(m) THEN @ ELSE 0]
    /\ lockOwner' = IF HandleOpenAfterCleanup(m) THEN lockOwner
                    ELSE OwnerAfterDrop(m)
    /\ lock_file_handle' = [lock_file_handle EXCEPT ![m] = SlotAfterCleanup(m)]
    /\ holder_info' = [holder_info EXCEPT ![m] = None]
    /\ pc' = [pc EXCEPT ![m] = IF reentered[m] THEN "held" ELSE "idle"]
    /\ ret' = Ret(m, "LockAcquisitionError", holder_info[m])
    /\ reentered' = [reentered EXCEPT ![m] = FALSE]
    /\ contended' = [contended EXCEPT ![m] = FALSE]
    /\ UNCHANGED <<dirExists, fileExists, content, excInfo, orphan,
                   credVars, lock_file_path>>

-----------------------------------------------------------------------------
(* The protected region and __exit__ *)

Exceptions == { "none", "ValueError" }

\* The body of the with statement ends, normally or by raising; the with
\* statement then calls __exit__ with what was raised.
BodyEnd(m) ==
    /\ pc[m] = "held"
    /\ \E e \in Exceptions : excInfo' = [excInfo EXCEPT ![m] = e]
    /\ pc' = [pc EXCEPT ![m] = "exiting"]
    /\ ret' = NoRet
    /\ UNCHANGED <<dirExists, fileExists, content, lockOwner, fdOpen, fdPos,
                   lock_file_handle, holder_info,
                   orphan, reentered, contended,
                   credVars, lock_file_path>>

\* Mutant: __exit__ unlocks the lock file whether or not the slot is set.
OwnerAfterUnlockAny(m) == 0

\* if self.lock_file_handle: fcntl.flock(fileno, LOCK_UN)
OwnerAfterUnlock(m) == IF lock_file_handle[m] THEN OwnerAfterDrop(m) ELSE lockOwner

ExitUnlock(m) ==
    /\ pc[m] = "exiting"
    /\ lockOwner' = OwnerAfterUnlock(m)
    /\ pc' = [pc EXCEPT ![m] = "unlocked"]
    /\ ret' = NoRet
    /\ UNCHANGED <<dirExists, fileExists, content, fdOpen, fdPos,
                   lock_file_handle, excInfo, holder_info,
                   orphan, reentered, contended,
                   credVars, lock_file_path>>

\* Mutant: __exit__ returns True.
ExitReturnsTrue == TRUE

\* __exit__ returns False on every path.
ExitReturnValue == FALSE

\* What the caller of the with statement sees: the exception of the body
\* unless __exit__ returned a true value.
Propagated(e) == IF e # "none" /\ ~ExitReturnValue THEN e ELSE "normal"

\* Mutant: the release removes the lock file from its directory.
FileAfterReleaseUnlinked == FALSE

\* Whether lock_file_path exists after __exit__: unlock and close are all the
\* release does to the file, and neither removes or renames it.
FileAfterRelease == fileExists

\* self.lock_file_handle.close(); self.lock_file_handle = None; return False
ExitClose(m) ==
    /\ pc[m] = "unlocked"
    /\ IF lock_file_handle[m]
       THEN /\ fdOpen' = [fdOpen EXCEPT ![m] = FALSE]
            /\ fdPos' = [fdPos EXCEPT ![m] = 0]
            /\ lockOwner' = OwnerAfterDrop(m)
            /\ lock_file_handle' = [lock_file_handle EXCEPT ![m] = FALSE]
       ELSE UNCHANGED <<fdOpen, fdPos, lockOwner, lock_file_handle>>
    /\ excInfo' = [excInfo EXCEPT ![m] = "none"]
    /\ pc' = [pc EXCEPT ![m] = "idle"]
    /\ ret' = Ret(m, Propagated(excInfo[m]), None)
    /\ fileExists' = FileAfterRelease
    /\ UNCHANGED <<dirExists, content, holder_info,
                   orphan, reentered, contended,
                   credVars, lock_file_path>>

\* Mutant: an __exit__ called outside of any with statement unlocks the lock
\* file of the path, whoever holds it.
ExitOutsideUnlocksPath(m) ==
    /\ Exists(m)
    /\ pc[m] = "idle"
    /\ lockOwner' = 0
    /\ ret' = Ret(m, "False", None)
    /\ UNCHANGED <<dirExists, fileExists, content, fdOpen, fdPos,
                   lock_file_handle, pc, excInfo, holder_info,
                   orphan, reentered, contended,
                   credVars, lock_file_path>>

\* __exit__ called on a manager that is outside of any with statement: one
\* that never acquired, whose __enter__ failed, or whose __exit__ has run.
\* With the slot empty the body of the try is skipped; with a slot left set
\* by a release that failed, the release is made again, and flock on a file
\* that is closed already raises ValueError, which is logged.
ExitOutside(m) ==
    /\ Exists(m)
    /\ pc[m] = "idle"
    /\ IF lock_file_handle[m] /\ fdOpen[m]
       THEN /\ lockOwner' = OwnerAfterUnlock(m)
            /\ fdOpen' = [fdOpen EXCEPT ![m] = FALSE]
            /\ fdPos' = [fdPos EXCEPT ![m] = 0]
            /\ lock_file_handle' = [lock_file_handle EXCEPT ![m] = FALSE]
       ELSE /\ lockOwner' = IF lock_file_handle[m] THEN lockOwner
                            ELSE OwnerAfterUnlock(m)
            /\ UNCHANGED <<fdOpen, fdPos, lock_file_handle>>
    /\ ret' = Ret(m, IF ExitReturnValue THEN "True" ELSE "False", None)
    /\ fileExists' = FileAfterRelease
    /\ UNCHANGED <<dirExists, content, pc, excInfo, holder_info,
                   orphan, reentered, contended,
                   credVars, lock_file_path>>

-----------------------------------------------------------------------------
(* Failures of the release *)

\* Mutant: an error of the release is raised to the caller.
ReleaseErrorRaised(e) == "OSError"

\* except Exception as e: logger.error(...), then return False: an error of
\* the release is logged, and the caller sees what the body raised.
ReleaseErrorOutcome(e) == Propagated(e)

\* fcntl.flock(fileno, LOCK_UN) raises: close() and the emptying of the slot
\* are skipped, so the file stays open and locked and the slot stays set.
ExitUnlockFails(m) ==
    /\ pc[m] = "exiting"
    /\ lock_file_handle[m]
    /\ excInfo' = [excInfo EXCEPT ![m] = "none"]
    /\ pc' = [pc EXCEPT ![m] = "idle"]
    /\ ret' = Ret(m, ReleaseErrorOutcome(excInfo[m]), None)
    /\ fileExists' = FileAfterRelease
    /\ UNCHANGED <<dirExists, content, lockOwner, fdOpen, fdPos,
                   lock_file_handle, holder_info, orphan, reentered, contended,
                   credVars, lock_file_path>>

\* close() raises (the flush of the buffer fails): the descriptor is closed
\* all the same, the emptying of the slot is skipped.
ExitCloseFails(m) ==
    /\ pc[m] = "unlocked"
    /\ lock_file_handle[m]
    /\ fdOpen' = [fdOpen EXCEPT ![m] = FALSE]
    /\ fdPos' = [fdPos EXCEPT ![m] = 0]
    /\ lockOwner' = OwnerAfterDrop(m)
    /\ excInfo' = [excInfo EXCEPT ![m] = "none"]
    /\ pc' = [pc EXCEPT ![m] = "idle"]
    /\ ret' = Ret(m, ReleaseErrorOutcome(excInfo[m]), None)
    /\ fileExists' = FileAfterRelease
    /\ UNCHANGED <<dirExists, content, lock_file_handle,
                   holder_info, orphan, reentered, contended,
                   credVars, lock_file_path>>

\* The interpreter reclaims a file that a slot no longer refers to: the file
\* is closed and the lock it holds is dropped.
CollectOrphan(m) ==
    /\ orphan[m]
    /\ orphan' = [orphan EXCEPT ![m] = FALSE]
    /\ lockOwner' = IF lockOwner = m THEN 0 ELSE lockOwner
    /\ ret' = NoRet
    /\ UNCHANGED <<dirExists, fileExists, content, fdOpen, fdPos,
                   lock_file_handle, pc, excInfo, holder_info, reentered,
                   contended,
                   credVars, lock_file_path>>

-----------------------------------------------------------------------------
(* Process termination *)

\* Mutant: the lock outlives the process that held it.
OwnerAfterExitKept(p) == lockOwner

\* The lock's owner after process p has ended: the operating system closes
\* every file of the process, which drops the lock one of them holds.
OwnerAfterExit(p) ==
    IF lockOwner # 0 /\ ProcOf(lockOwner) = p THEN 0 ELSE lockOwner

\* Process p ends without running any __exit__ (kill, crash, power loss).
Crash(p) ==
    /\ \E m \in Managers : ProcOf(m) = p /\ pc[m] # "dead"
    /\ pc' = [m \in Managers |-> IF ProcOf(m) = p THEN "dead" ELSE pc[m]]
    /\ fdOpen' = [m \in Managers |-> IF ProcOf(m) = p THEN FALSE ELSE fdOpen[m]]
    /\ lock_file_handle' =
          [m \in Managers |-> IF ProcOf(m) = p THEN FALSE ELSE lock_file_handle[m]]
    /\ fdPos' = [m \in Managers |-> IF ProcOf(m) = p THEN 0 ELSE fdPos[m]]
    /\ excInfo' = [m \in Managers |-> IF ProcOf(m) = p THEN "none" ELSE excInfo[m]]
    /\ holder_info' =
          [m \in Managers |-> IF ProcOf(m) = p THEN None ELSE holder_info[m]]
    /\ lockOwner' = OwnerAfterExit(p)
    /\ orphan' = [m \in Managers |-> IF ProcOf(m) = p THEN FALSE ELSE orphan[m]]
    /\ reentered' =
          [m \in Managers |-> IF ProcOf(m) = p THEN FALSE ELSE reentered[m]]
    /\ contended' =
          [m \in Managers |-> IF ProcOf(m) = p THEN FALSE ELSE contended[m]]
    /\ ret' = NoRet
    /\ UNCHANGED <<dirExists, fileExists, content,
                   credVars, lock_file_path>>

-----------------------------------------------------------------------------
(* get_lock_holder_info called from outside __enter__ *)

\* A manager that is not inside __enter__ or __exit__ inspects the lock file.
\* ret holds the returned value for the step of the call; every other step
\* resets it.
\* Mutant: the file is read under the lock, so the call waits while another
\* manager's file holds it.
ReadsUnderLock(m) ==
    /\ Exists(m)
    /\ pc[m] \in { "idle", "held" }
    /\ lockOwner \in { 0, m }

\* What get_lock_holder_info needs to run: the manager, which is not inside
\* another of its methods.  It opens nothing and asks for no lock.
Reads(m) ==
    /\ Exists(m)
    /\ pc[m] \in { "idle", "held" }

GetHolderInfo(m) ==
    /\ Reads(m)
    /\ ret' = Ret(m, "info", get_lock_holder_info)
    /\ UNCHANGED <<dirExists, fileExists, content, lockOwner, fdOpen, fdPos,
                   lock_file_handle, pc, excInfo, holder_info,
                   orphan, reentered, contended,
                   credVars, lock_file_path>>

-----------------------------------------------------------------------------
(* The specification *)

Step(m) ==
    \/ EnterOpen(m)
    \/ EnterFlock(m)
    \/ write_lock_metadata(m)
    \/ EnterReturn(m)
    \/ EnterBlockedInfo(m)
    \/ EnterBlockedRaise(m)
    \/ BodyEnd(m)
    \/ ExitUnlock(m)
    \/ ExitClose(m)

Next ==
    \/ \E m \in Managers : Step(m)
    \/ \E p \in Procs : Crash(p)
    \/ \E m \in Managers : GetHolderInfo(m)
    \/ \E m \in Managers : ExitOutside(m)

\* The managers are used as the with statement uses them, and the release
\* never fails.
Spec == Init /\ [][Next]_vars

\* The steps of __enter__.
EnterStep(m) ==
    \/ EnterOpen(m)
    \/ EnterFlock(m)
    \/ write_lock_metadata(m)
    \/ EnterReturn(m)
    \/ EnterBlockedInfo(m)
    \/ EnterBlockedRaise(m)

\* The managers only acquire, concurrently, on a path whose lock is free:
\* nothing is released and no process dies.
NextAcquire == \E m \in Managers : EnterStep(m)

SpecAcquire == Init /\ [][NextAcquire]_vars

\* A manager may call __enter__ again inside its own with statement.
NextReentrant ==
    \/ Next
    \/ \E m \in Managers : Reenter(m)
    \/ \E m \in Managers : CollectOrphan(m)

SpecReentrant == Init /\ [][NextReentrant]_vars

\* The unlock and the close of __exit__ may fail.
NextFaults ==
    \/ Next
    \/ \E m \in Managers : ExitUnlockFails(m)
    \/ \E m \in Managers : ExitCloseFails(m)
    \/ \E m \in Managers : CollectOrphan(m)

SpecFaults == Init /\ [][NextFaults]_vars

-----------------------------------------------------------------------------
(* Failures of the system calls of __enter__ and get_lock_holder_info *)

\* Mutant: the handler raises without closing the handle.
HandleKeptOnFailure(m) == fdOpen[m]

\* The clean-up of the handler of unexpected errors: close the handle and
\* empty the slot when the slot is set.
HandleOpenAfterFailure(m) == IF lock_file_handle[m] THEN FALSE ELSE fdOpen[m]

\* except Exception: log, clean up, raise.  The error e that was caught
\* leaves __enter__ as it is.
Unexpected(m, e) ==
    /\ fdOpen' = [fdOpen EXCEPT ![m] = HandleOpenAfterFailure(m)]
    /\ fdPos' = [fdPos EXCEPT ![m] = IF HandleOpenAfterFailure(m) THEN @ ELSE 0]
    /\ lockOwner' = IF fdOpen[m] /\ ~HandleOpenAfterFailure(m)
                    THEN OwnerAfterDrop(m) ELSE lockOwner
    /\ lock_file_handle' = [lock_file_handle EXCEPT ![m] = FALSE]
    /\ pc' = [pc EXCEPT ![m] = IF reentered[m] THEN "held" ELSE "idle"]
    /\ ret' = Ret(m, e, None)
    /\ reentered' = [reentered EXCEPT ![m] = FALSE]
    /\ contended' = [contended EXCEPT ![m] = FALSE]
    /\ UNCHANGED <<excInfo, holder_info, orphan, lock_file_path, credVars>>

\* mkdir raises: the parent directory is missing and cannot be created.
EnterMkdirFails(m) ==
    /\ Exists(m)
    /\ pc[m] = "idle"
    /\ ~dirExists
    /\ Unexpected(m, "PermissionError")
    /\ UNCHANGED <<dirExists, fileExists, content>>

\* open raises after mkdir went through: the file is neither created nor
\* truncated, and the slot is not assigned.
EnterOpenFails(m) ==
    /\ Exists(m)
    /\ pc[m] = "idle"
    /\ dirExists' = DirAfterMkdir
    /\ Unexpected(m, "PermissionError")
    /\ UNCHANGED <<fileExists, content>>

\* flock raises an error that is no BlockingIOError (ENOLCK, EINTR): the
\* file was opened and truncated, no lock was given.
EnterFlockFails(m) ==
    /\ pc[m] = "opened"
    /\ Unexpected(m, "OSError")
    /\ UNCHANGED <<dirExists, fileExists, content>>

\* The first of the three lines of the metadata.
PidLine(m) == << "pid", "=" >> \o Str(getpid(m)) \o << NL >>

\* Mutant: _write_lock_metadata lets the error of the write out, into the
\* handler of __enter__.
WriteMetadataRaises(m) ==
    /\ pc[m] = "locked"
    /\ Unexpected(m, "OSError")
    /\ UNCHANGED <<dirExists, fileExists, content>>

\* The write or the flush of _write_lock_metadata raises (disk full, quota):
\* nothing, or only the first line, has reached the file.  The error is
\* logged as a warning and __enter__ goes on.
WriteMetadataFails(m) ==
    /\ pc[m] = "locked"
    /\ \E part \in BOOLEAN :
          LET written == IF part THEN PidLine(m) ELSE << >>
          IN  /\ content' = WriteAt(content, fdPos[m], written)
              /\ fdPos' = [fdPos EXCEPT ![m] = @ + Len(written)]
    /\ pc' = [pc EXCEPT ![m] = "written"]
    /\ ret' = NoRet
    /\ UNCHANGED <<dirExists, fileExists, lockOwner, fdOpen,
                   lock_file_handle, excInfo, holder_info,
                   orphan, reentered, contended,
                   credVars, lock_file_path>>

\* Mutant: get_lock_holder_info lets the error of the read out.
GetHolderInfoReadRaises(m) ==
    /\ Reads(m)
    /\ fileExists
    /\ ret' = Ret(m, "UnicodeDecodeError", None)
    /\ UNCHANGED <<dirExists, fileExists, content, lockOwner, fdOpen, fdPos,
                   lock_file_handle, pc, excInfo, holder_info,
                   orphan, reentered, contended,
                   credVars, lock_file_path>>

\* read_text raises on a lock file that exists (no permission, bytes that
\* are no text): the error is logged as a warning and None is returned.
GetHolderInfoReadFails(m) ==
    /\ Reads(m)
    /\ fileExists
    /\ ret' = Ret(m, "info", None)
    /\ UNCHANGED <<dirExists, fileExists, content, lockOwner, fdOpen, fdPos,
                   lock_file_handle, pc, excInfo, holder_info,
                   orphan, reentered, contended,
                   credVars, lock_file_path>>

\* mkdir, open and flock of __enter__ and the read of get_lock_holder_info
\* may fail.  No process dies and the release does not fail.
NextIOFaults ==
    \/ \E m \in Managers : Step(m)
    \/ \E m \in Managers : GetHolderInfo(m)
    \/ \E m \in Managers : EnterMkdirFails(m)
    \/ \E m \in Managers : EnterOpenFails(m)
    \/ \E m \in Managers : EnterFlockFails(m)
    \/ \E m \in Managers : GetHolderInfoReadFails(m)

SpecIOFaults == Init /\ [][NextIOFaults]_vars

\* The write of the metadata may fail.  No process dies and the release
\* does not fail.
NextWriteFaults ==
    \/ \E m \in Managers : Step(m)
    \/ \E m \in Managers : WriteMetadataFails(m)

SpecWriteFaults == Init /\ [][NextWriteFaults]_vars

-----------------------------------------------------------------------------
(* The construction of the managers *)

\* What the constructor of manager m gave its caller: the object, or the
\* TypeError with its text.
InitRet(m, kind, arg, msg) ==
    [by |-> m, kind |-> kind, info |-> None, arg |-> arg, msg |-> msg]

\* LockManager(lock_file_path=arg): the argument is validated, then the two
\* attributes are set.  Nothing else is done: no directory, no file, no
\* lock.
LockManagerInit(m, arg) ==
    /\ ~Exists(m)
    /\ pc[m] = "idle"
    /\ IF Rejected(arg)
       THEN /\ ret' = InitRet(m, "TypeError", arg, TypeErrorMessage(arg))
            /\ UNCHANGED <<lock_file_path, lock_file_handle>>
       ELSE /\ lock_file_path' = [lock_file_path EXCEPT ![m] = PathOr(arg)]
            /\ lock_file_handle' = [lock_file_handle EXCEPT ![m] = FALSE]
            /\ ret' = InitRet(m, "LockManager", arg, << >>)
    /\ UNCHANGED <<dirExists, fileExists, content, lockOwner, fdOpen, fdPos,
                   pc, excInfo, holder_info, orphan, reentered, contended,
                   credVars>>

\* No manager has been constructed yet.
InitUnconstructed ==
    /\ FilesInit
    /\ lock_file_path = [m \in Managers |-> NoPath]
    /\ CredQuiet

NextConstruct ==
    \/ Next
    \/ \E m \in Managers, arg \in Arguments : LockManagerInit(m, arg)

\* The managers are constructed, with any argument, before they are used.
SpecConstruct == InitUnconstructed /\ [][NextConstruct]_vars

-----------------------------------------------------------------------------
(* setup_google_credentials *)

\* The path names a file that exists.
\* Mutant: no path names a file.
PathNeverExists(value) == FALSE

PathExists(value) ==
    value = ExistingPath \/ (value = StagedPath /\ staged.exists)

\* Mutant: a value that names no file ends the call with an error.
PathOutcomeRaises(value) ==
    IF PathExists(value)
    THEN Outcome("ok", << >>, << >>, 0)
    ELSE Outcome("ValueError", << "not", "found" >>, << >>, 0)

\* How prepare_credentials_for_adc ends on a value that is not inline
\* JSON: silently on the path of an existing file, and with a warning
\* ("not set", "not found") on an unset value and on a path that names
\* no file.
PathOutcome(value) ==
    IF value = Unset
    THEN Outcome("warning", << "not", "set" >>, << >>, 0)
    ELSE IF PathExists(value)
         THEN Outcome("ok", << >>, << >>, 0)
         ELSE Outcome("warning", << "not", "found" >>, << >>, 0)

\* The start of the call.  Inline JSON is parsed and validated: an
\* invalid text ends the call with ValueError.  Anything else is left
\* to ambient discovery, with a warning when it names no file.
SetupStart ==
    /\ cpc = "idle"
    /\ IF IsInline(cfg)
       THEN LET r == ParseAndValidate(cfg)
            IN  IF r.ok
                THEN /\ creds_data' = r.value
                     /\ cpc' = "setup_parsed"
                     /\ cret' = NoCret
                ELSE /\ cret' = Cret("setup",
                                     Outcome("ValueError", r.msg, << >>, 0))
                     /\ UNCHANGED <<creds_data, cpc>>
       ELSE /\ cret' = Cret("setup",
                  IF cfg = Unset
                  THEN Outcome("warning",
                           << "GOOGLE_APPLICATION_CREDENTIALS", "not", "set" >>,
                           << >>, 0)
                  ELSE IF PathExists(cfg) THEN Outcome("ok", << >>, << >>, 0)
                  ELSE Outcome("warning",
                           << "is", "not", "valid", "JSON", "or", "a", "file",
                              "path" >>, << >>, 0))
            /\ UNCHANGED <<creds_data, cpc>>
    /\ clears' = 0
    /\ UNCHANGED <<cfg, pending, credentials, defaultCalls, staged, lockVars>>

\* The credential object is built from a copy of the descriptor.
SetupBuild ==
    /\ cpc = "setup_parsed"
    /\ \E sdk \in SdkOutcomes(creds_data) :
          pending' = BuildCredential(creds_data, sdk)
    /\ cpc' = "setup_built"
    /\ cret' = NoCret
    /\ UNCHANGED <<cfg, creds_data, clears, credentials, defaultCalls, staged,
                   lockVars>>

\* Mutant: the descriptor is left as it is.
DescriptorKept(d) == d

\* creds_data.clear()
DescriptorAfterClear(d) == EmptyMap

\* finally: the descriptor is cleared.
SetupClear ==
    /\ cpc = "setup_built"
    /\ creds_data' = DescriptorAfterClear(creds_data)
    /\ clears' = clears + 1
    /\ cpc' = "setup_cleared"
    /\ cret' = NoCret
    /\ UNCHANGED <<cfg, pending, credentials, defaultCalls, staged, lockVars>>

\* The call ends the way the construction ended.
SetupEnd ==
    /\ cpc = "setup_cleared"
    /\ cret' = Cret("setup", pending)
    /\ pending' = NoOutcome
    /\ cpc' = "idle"
    /\ UNCHANGED <<cfg, creds_data, clears, credentials, defaultCalls, staged,
                   lockVars>>

-----------------------------------------------------------------------------
(* get_google_credentials *)

\* Mutant: the cache is not looked at.
CacheIgnored == FALSE

\* if self._credentials is not None: return it
CacheHit == credentials # 0

\* The cached object, or google.auth.default(scopes=...): the object it
\* returns is cached and returned, its exception becomes a ValueError.
GetCredentials ==
    /\ cpc = "idle"
    /\ IF CacheHit
       THEN /\ cret' = Cret("get", Outcome("ok", << >>, << >>, credentials))
            /\ UNCHANGED <<credentials, defaultCalls>>
       ELSE /\ defaultCalls < MaxCalls
            /\ defaultCalls' = defaultCalls + 1
            /\ \/ /\ credentials' = defaultCalls'
                  /\ cret' = Cret("get",
                                  Outcome("ok", << >>, << >>, defaultCalls'))
               \/ \E text \in DiscoveryErrorTexts :
                     /\ cret' = Cret("get",
                                   Outcome("ValueError",
                                           DiscoveryFailureMessage(text),
                                           text, 0))
                     /\ UNCHANGED credentials
    /\ UNCHANGED <<cfg, cpc, creds_data, clears, pending, staged, lockVars>>

-----------------------------------------------------------------------------
(* prepare_credentials_for_adc *)

\* The start of the call.  Inline JSON is parsed and validated: an invalid
\* text ends the call with ValueError.  A path and no value at all end the
\* call at once: silently when the file exists, with a warning otherwise.
PrepareStart ==
    /\ cpc = "idle"
    /\ IF IsInline(cfg)
       THEN LET r == ParseAndValidate(cfg)
            IN  IF r.ok
                THEN /\ creds_data' = r.value
                     /\ cpc' = "prepare_parsed"
                     /\ cret' = NoCret
                ELSE /\ cret' = Cret("prepare",
                                     Outcome("ValueError", r.msg, << >>, 0))
                     /\ UNCHANGED <<creds_data, cpc>>
       ELSE /\ cret' = Cret("prepare", PathOutcome(cfg))
            /\ UNCHANGED <<creds_data, cpc>>
    /\ clears' = 0
    /\ UNCHANGED <<cfg, pending, credentials, defaultCalls, staged, lockVars>>

\* open(temp_path, "w"): the file is created, or emptied when it exists.
PrepareOpen ==
    /\ cpc = "prepare_parsed"
    /\ staged' = [exists |-> TRUE, content |-> << >>,
                  mode |-> IF staged.exists THEN staged.mode ELSE DefaultMode]
    /\ cpc' = "prepare_opened"
    /\ cret' = NoCret
    /\ UNCHANGED <<cfg, creds_data, clears, pending, credentials, defaultCalls,
                   lockVars>>

\* json.dump(creds_data, f), before or after the mode is set.
PrepareWrite ==
    /\ cpc \in { "prepare_opened", "prepare_restricted" }
    /\ staged' = [staged EXCEPT !.content = Dump(creds_data)]
    /\ cpc' = IF cpc = "prepare_opened" THEN "prepare_written"
              ELSE "prepare_staged"
    /\ cret' = NoCret
    /\ UNCHANGED <<cfg, creds_data, clears, pending, credentials, defaultCalls,
                   lockVars>>

\* temp_path.chmod(0o600), before or after the content is written.
PrepareChmod ==
    /\ cpc \in { "prepare_opened", "prepare_written" }
    /\ staged' = [staged EXCEPT !.mode = ModeAfterChmod(@)]
    /\ cpc' = IF cpc = "prepare_opened" THEN "prepare_restricted"
              ELSE "prepare_staged"
    /\ cret' = NoCret
    /\ UNCHANGED <<cfg, creds_data, clears, pending, credentials, defaultCalls,
                   lockVars>>

\* os.environ["GOOGLE_APPLICATION_CREDENTIALS"] = str(temp_path)
PrepareSetEnv ==
    /\ cpc = "prepare_staged"
    /\ cfg' = StagedPath
    /\ cpc' = "prepare_published"
    /\ cret' = NoCret
    /\ UNCHANGED <<creds_data, clears, pending, credentials, defaultCalls,
                   staged, lockVars>>

\* creds_data.clear(), and the call returns.
PrepareEnd ==
    /\ cpc = "prepare_published"
    /\ creds_data' = DescriptorAfterClear(creds_data)
    /\ clears' = clears + 1
    /\ cpc' = "idle"
    /\ cret' = Cret("prepare", Outcome("ok", << >>, << >>, 0))
    /\ UNCHANGED <<cfg, pending, credentials, defaultCalls, staged, lockVars>>

-----------------------------------------------------------------------------
(* The specification of the credential manager *)

NextCred ==
    \/ SetupStart
    \/ SetupBuild
    \/ SetupClear
    \/ SetupEnd
    \/ GetCredentials
    \/ PrepareStart
    \/ PrepareOpen
    \/ PrepareWrite
    \/ PrepareChmod
    \/ PrepareSetEnv
    \/ PrepareEnd

\* No manager touches the lock while the credentials are resolved.
LockQuiet ==
    /\ dirExists = FALSE
    /\ LockInit

InitCred == LockQuiet /\ CredInit

SpecCred == InitCred /\ [][NextCred]_vars

-----------------------------------------------------------------------------
(* Notions the properties share *)

\* Manager m is Held: __enter__ has returned to it and its __exit__ has not
\* unlocked yet.
Held(m) == pc[m] \in { "held", "exiting" }

\* Manager m is between a granted flock and its unlock.
InLock(m) == pc[m] \in { "locked", "written", "held", "exiting" }

\* This step is m's flock attempt.
FlockStep(m) == pc[m] = "opened" /\ pc'[m] \in { "locked", "blocked" }

\* This step is m's metadata write.
WriteStep(m) == pc[m] = "locked" /\ pc'[m] = "written"

\* The lock file holds the metadata of manager m and nothing else.
HoldsMetadataOf(c, m) == \E ts \in Timestamps : c = Metadata(m, ts)

\* The assertions of test_lock_file_contains_correct_metadata on the content c
\* read while manager m holds the lock: three lines, each key=value, the keys
\* pid, hostname and timestamp, the pid that of m's process.
ThreeLinesOf(c, m) ==
    LET lines == Split(Strip(c))
        md    == ParseLines(lines, << >>)
    IN  /\ Len(lines) = 3
        /\ \A i \in 1 .. Len(lines) : Find(lines[i], "=", 1) # 0
        /\ DOMAIN md = { << "pid" >>, << "hostname" >>, << "timestamp" >> }
        /\ md[<< "pid" >>] = Str(getpid(m))

-----------------------------------------------------------------------------
(* C1 *)

\* C1: mutual exclusion.  In every reachable state at most one manager, of any
\* process, is Held on the lock path.
C1_MutualExclusion ==
    \A a, b \in Managers : Held(a) /\ Held(b) => a = b

\* One manager is Held while another has just been refused the lock.
C1_Witness ==
    \E a, b \in Managers : a # b /\ Held(a) /\ pc[b] = "blocked"

-----------------------------------------------------------------------------
(* C2 *)

\* C2: two independent managers on one path.  Every flock attempt of b made
\* while another manager is Held is refused and ends in LockAcquisitionError
\* raised to b's caller; every flock attempt of b made when no other manager
\* is between its flock and its unlock (each has released, failed or not
\* started) is granted at once, whatever attempts failed before.
C2_SecondAcquire ==
    [][ \A b \in Managers :
          /\ FlockStep(b) /\ (\E a \in Managers \ {b} : Held(a))
                => pc'[b] = "blocked"
          /\ pc[b] = "blocked" /\ pc'[b] # "blocked"
                => pc'[b] \in { "cleanup", "dead" }
          /\ pc[b] = "cleanup" /\ pc'[b] # "cleanup"
                => \/ pc'[b] = "dead"
                   \/ pc'[b] = "idle" /\ ret'.by = b
                        /\ ret'.kind = "LockAcquisitionError"
          /\ FlockStep(b) /\ (\A a \in Managers \ {b} : ~InLock(a))
                => pc'[b] = "locked" ]_vars

\* Manager b has been granted the lock after manager a, whose metadata the
\* file still holds, released it and left its with statement.
C2_Witness ==
    \E a, b \in Managers :
        /\ a # b
        /\ pc[b] = "locked"
        /\ pc[a] = "idle"
        /\ HoldsMetadataOf(content, a)

-----------------------------------------------------------------------------
(* C3 *)

\* C3: when the protected region raises, __exit__ still runs and releases the
\* lock: at its return the manager owns no lock, its file is closed and its
\* handle slot is empty, and the caller sees the exception of the region
\* (a region that ends normally ends the with statement normally).
C3_ReleaseOnException ==
    [][ \A m \in Managers :
          /\ pc[m] = "held" /\ pc'[m] # "held"
                => pc'[m] \in { "exiting", "dead" }
          /\ pc[m] = "unlocked" /\ pc'[m] = "idle"
                => /\ ret'.by = m
                   /\ ret'.kind = (IF excInfo[m] = "none" THEN "normal"
                                   ELSE excInfo[m])
                   /\ lockOwner' # m
                   /\ ~fdOpen'[m]
                   /\ ~lock_file_handle'[m] ]_vars

\* The ValueError of manager a's region has reached a's caller, and another
\* manager has been granted the lock a released.
C3_Witness ==
    \E a, b \in Managers :
        /\ a # b
        /\ ret = Ret(a, "ValueError", None)
        /\ pc[b] = "locked"

-----------------------------------------------------------------------------
(* C4 *)

\* C4: whenever a manager a is Held, a get_lock_holder_info call of another
\* manager returns a mapping whose pid is the process id of a, whatever the
\* other managers did on the path before.
C4_HolderInfoPid ==
    \A a \in Managers :
        Held(a) /\ ret.kind = "info" /\ ret.by # a
            => Field(ret.info, "pid") = Str(getpid(a))

-----------------------------------------------------------------------------
(* C5 *)

\* C5: the LockAcquisitionError raised on contention carries the metadata of
\* the current holder: the pid and the hostname the Held manager wrote, and a
\* timestamp.
C5_ErrorReportsHolder ==
    \A a \in Managers :
        Held(a) /\ ret.kind = "LockAcquisitionError" /\ ret.by # a
            => /\ Field(ret.info, "pid") = Str(getpid(a))
               /\ Field(ret.info, "hostname") = << gethostname(a) >>
               /\ Field(ret.info, "timestamp") # << >>

-----------------------------------------------------------------------------
(* C6 *)

\* C6: the content of the lock file changes only in the metadata write of the
\* manager that owns the lock; no step of a manager that does not own the lock
\* (an attempt that is about to fail included) writes or truncates the file.
C6_OnlyOwnerWrites ==
    [][ content' # content
          => \E m \in Managers : lockOwner = m /\ WriteStep(m) ]_vars

-----------------------------------------------------------------------------
(* C7 *)

\* C7: when __enter__ returns to manager m, the lock file holds exactly three
\* key=value lines (pid, hostname, timestamp) and the pid is that of m's
\* process.
C7_ThreeLinesAtReturn ==
    \A m \in Managers :
        ret = Ret(m, "acquired", None) => ThreeLinesOf(content, m)

-----------------------------------------------------------------------------
(* C8 *)

\* C8: an acquisition on a path whose file holds what an earlier holder left,
\* with no lock held on it, succeeds whatever the content is, and once the
\* new holder has written, the file holds the new holder's metadata only.
C8_StaleOverwritten ==
    [][ \A m \in Managers :
          /\ FlockStep(m) /\ lockOwner = 0 => pc'[m] = "locked"
          /\ WriteStep(m) => HoldsMetadataOf(content', m) ]_vars

-----------------------------------------------------------------------------
(* C9 *)

\* C9: a process that ends without __exit__ holds no lock afterwards, and a
\* flock attempt made when every other manager is dead or outside the span
\* from flock to unlock is granted, whatever the dead left in the file.
C9_CrashReleases ==
    [][ /\ lockOwner' # 0 => pc'[lockOwner'] # "dead"
        /\ \A b \in Managers :
              FlockStep(b)
              /\ (\E d \in Managers : pc[d] = "dead")
              /\ (\A a \in Managers \ {b} : pc[a] = "dead" \/ ~InLock(a))
                  => pc'[b] = "locked" ]_vars

\* Manager b has been granted the lock on a file that still holds the
\* metadata of a manager d whose process has ended.
C9_Witness ==
    \E b, d \in Managers :
        /\ pc[d] = "dead"
        /\ pc[b] = "locked"
        /\ HoldsMetadataOf(content, d)

-----------------------------------------------------------------------------
(* C10 *)

\* C10: when LockAcquisitionError reaches the caller of manager m, the file m
\* opened in the attempt is closed and m's handle slot is empty.
C10_HandleClosedOnContention ==
    \A m \in Managers :
        ret.by = m /\ ret.kind = "LockAcquisitionError"
            => ~fdOpen[m] /\ ~lock_file_handle[m]

\* LockAcquisitionError has reached the caller of b while a is Held.
C10_Witness ==
    \E a, b \in Managers :
        /\ a # b
        /\ Held(a)
        /\ ret.by = b
        /\ ret.kind = "LockAcquisitionError"

-----------------------------------------------------------------------------
(* C11 *)

\* Manager m holds the lock through a file its slot does not refer to.
HoldsUntracked(m) == orphan[m] /\ lockOwner = m /\ ~lock_file_handle[m]

\* C11: an __enter__ called on a manager that is Held never returns as a
\* second successful acquisition, and never leaves the manager holding the
\* lock through a file its slot does not refer to.
C11_NoReentrantAcquisition ==
    [][ \A m \in Managers :
           /\ ~(reentered[m] /\ pc[m] = "written" /\ pc'[m] = "held")
           /\ ~(reentered[m] /\ pc'[m] = "held" /\ HoldsUntracked(m)') ]_vars

-----------------------------------------------------------------------------
(* C12 *)

\* This step is a whole __exit__ that manager m, being outside of any with
\* statement and with an empty slot, was called with.
ReleaseOfUnheld(m) ==
    pc[m] = "idle" /\ ~lock_file_handle[m] /\ ret'.by = m /\ ret'.kind # "info"

\* C12: __exit__ on a manager that holds nothing (it never acquired, or its
\* release is complete) returns False, raises nothing, and changes neither the
\* owner of the lock, nor the lock file, nor any handle or slot.
C12_ReleaseIdempotent ==
    [][ \A m \in Managers :
           ReleaseOfUnheld(m)
               => /\ ret' = Ret(m, "False", None)
                  /\ UNCHANGED <<lockOwner, content, fileExists, dirExists,
                                 lock_file_handle, fdOpen, fdPos, pc, orphan>> ]_vars

\* Manager m has acquired, written its metadata and released, and an __exit__
\* called on it after that has returned.
C12_Witness ==
    \E m \in Managers :
        /\ ret = Ret(m, "False", None)
        /\ lockOwner = 0
        /\ HoldsMetadataOf(content, m)

-----------------------------------------------------------------------------
(* C13 *)

\* This step is the end of an __exit__ of manager m whose unlock or close
\* raised: the slot of m is still set when __exit__ is over.
ReleaseFailed(m) ==
    pc[m] \in { "exiting", "unlocked" } /\ pc'[m] = "idle" /\ lock_file_handle'[m]

\* C13: when the unlock or the close of __exit__ raises, the caller of the
\* with statement sees what the body raised, and a normal end when the body
\* raised nothing; it never sees the error of the release.
C13_ReleaseErrorsLogged ==
    [][ \A m \in Managers :
           ReleaseFailed(m)
               => ret' = Ret(m, IF excInfo[m] = "none" THEN "normal"
                                ELSE excInfo[m], None) ]_vars

\* The body of m's with statement raised ValueError, the release then
\* failed, and ValueError has reached the caller.
C13_Witness ==
    \E m \in Managers :
        /\ ret = Ret(m, "ValueError", None)
        /\ pc[m] = "idle"
        /\ lock_file_handle[m]

-----------------------------------------------------------------------------
(* C14 *)

\* An __enter__ makes one flock call, which returns at once, and does not go
\* back to it: from the refusal on, the only way out is LockAcquisitionError,
\* whatever becomes of the lock meanwhile.
OneAttempt(b) ==
    /\ pc[b] = "opened" => pc'[b] \in { "opened", "locked", "blocked", "dead" }
    /\ pc[b] \in { "locked", "written" }
          => pc'[b] \in { "locked", "written", "held", "dead" }
    /\ pc[b] \in { "blocked", "cleanup" }
          => /\ pc'[b] \in { "blocked", "cleanup", "idle", "dead" }
             /\ pc'[b] = "idle"
                   => ret'.by = b /\ ret'.kind = "LockAcquisitionError"

\* The flock call of every __enter__ that has opened the file can return.
NeverWaits == \A b \in Managers : pc[b] = "opened" => ENABLED EnterFlock(b)

-----------------------------------------------------------------------------
(* C15 *)

\* The call that has just ended rejected the value of the variable as
\* credentials: it is no JSON, of no known type, or incomplete.
ValidationFailed ==
    /\ cret.op \in { "setup", "prepare" }
    /\ cret.kind = "ValueError"
    /\ cret.cause = << >>

\* Two texts that differ at most in their secrets: both are no JSON, or both
\* are objects with the same members that agree on every member that is no
\* secret and on which secrets are empty.
AlikeButSecrets(x, y) ==
    IF WellFormed(x) /\ WellFormed(y)
    THEN LET a == Loads(x)
             b == Loads(y)
         IN  /\ DOMAIN a = DOMAIN b
             /\ \A k \in DOMAIN a :
                   IF k \in SecretKeys THEN (a[k] = "") = (b[k] = "")
                   ELSE a[k] = b[k]
    ELSE ~WellFormed(x) /\ ~WellFormed(y)

\* What of a text must not show in a message: every word of a text that is
\* no JSON, every value of an object but the name of a known variant.
Fragments(text) ==
    IF ~WellFormed(text) THEN Words(text)
    ELSE LET d == Loads(text)
         IN  { d[k] : k \in { j \in DOMAIN d :
                                  j # "type" \/ d[j] \notin Variants } } \ { "" }

\* C15: the message of a rejected credential text is the message of every
\* text that differs from it only in its secrets (or, being no JSON, in
\* anything), and holds no fragment of the text.
C15_MessagesHideSecrets ==
    ValidationFailed
        => /\ \A y \in Inputs :
                 IsInline(y) /\ AlikeButSecrets(cfg, y)
                     => /\ ~ParseAndValidate(y).ok
                        /\ ParseAndValidate(y).msg = cret.msg
           /\ MessageWords(cret.msg) \cap Fragments(cfg) = {}

\* prepare_credentials_for_adc has rejected an incomplete descriptor that
\* holds a secret.
C15_Witness ==
    /\ ValidationFailed
    /\ cret.op = "prepare"
    /\ WellFormed(cfg)
    /\ Fragments(cfg) \cap Secrets # {}
    /\ cret.msg = IncompleteMessage("authorized_user")

-----------------------------------------------------------------------------
(* C16 *)

\* The construction of the credential object has failed in the library.
ConstructionFailed(o) == o.cause # << >>

\* C16: whatever the variant, a failure of the library's constructor reaches
\* the caller as ValueError "Invalid <variant> credentials", a message that
\* holds neither the text of the library's exception nor a secret.
C16_BuildFailureGeneric ==
    /\ cpc = "setup_built" /\ ConstructionFailed(pending)
          => /\ pending.kind = "ValueError"
             /\ pending.msg = InvalidVariantMessage(TypeOf(creds_data))
    /\ cret.op = "setup" /\ ConstructionFailed(cret)
          => /\ ~Occurs(cret.cause, cret.msg)
             /\ MessageWords(cret.msg) \cap Secrets = {}

-----------------------------------------------------------------------------
(* C17 *)

\* This step is the end of a setup_google_credentials that went through the
\* construction of the credential object.
SetupReturns == cpc = "setup_cleared" /\ cpc' = "idle"

\* C17: the descriptor is whole while the construction uses it, is cleared
\* once, after the construction and before the call ends, whether the
\* construction succeeded or failed, and a failed construction ends the call
\* with its error.
C17_DescriptorClearedOnce ==
    [][ /\ cpc' \in { "setup_parsed", "setup_built" }
              => clears' = 0 /\ ParseAndValidate(Dump(creds_data')).ok
        /\ clears' <= 1
        /\ SetupReturns
              => /\ clears' = 1
                 /\ DOMAIN creds_data' = {}
                 /\ cret' = Cret("setup", pending)
                 /\ cret'.kind # "none"
                 /\ ConstructionFailed(pending) => cret'.kind # "ok" ]_vars

\* The construction failed, the descriptor is empty, cleared once, and the
\* error of the construction has reached the caller.
C17_Witness ==
    /\ cret.op = "setup"
    /\ ConstructionFailed(cret)
    /\ cret.kind = "ValueError"
    /\ clears = 1
    /\ DOMAIN creds_data = {}

-----------------------------------------------------------------------------
(* C18 *)

\* This step is the end of a get_google_credentials.
GetReturns == cret'.op = "get"

\* C18: once a credential object is cached, it stays the cached one, every
\* get_google_credentials returns it, and google.auth.default() is not called
\* again; the cache is written only when it is empty, by a discovery that
\* succeeded, with the object that call returns.
C18_Memoized ==
    [][ /\ credentials # 0
              => /\ credentials' = credentials
                 /\ defaultCalls' = defaultCalls
                 /\ GetReturns
                       => cret'.kind = "ok" /\ cret'.value = credentials
        /\ credentials' # credentials
              => /\ credentials = 0
                 /\ GetReturns
                 /\ cret'.kind = "ok"
                 /\ cret'.value = credentials'
                 /\ defaultCalls' = defaultCalls + 1 ]_vars

\* get_google_credentials has returned the cached object, found by the only
\* discovery made, while more discoveries could still be made.
C18_Witness ==
    /\ cret.op = "get"
    /\ cret.kind = "ok"
    /\ credentials # 0
    /\ cret.value = credentials
    /\ defaultCalls = 1
    /\ defaultCalls < MaxCalls

-----------------------------------------------------------------------------
(* C19 *)

\* The words the message of a failed discovery begins with.
FailedToLoad == << "Failed", "to", "load", "Google", "Cloud", "credentials" >>

\* C19: a google.auth.default() that raises makes get_google_credentials
\* raise ValueError with a message that begins "Failed to load Google Cloud
\* credentials", is the same whatever the library's text, and holds neither
\* that text nor a secret.
C19_DiscoveryFailureGeneric ==
    [][ GetReturns
            => /\ defaultCalls' # defaultCalls /\ credentials' = 0
                     => cret'.kind = "ValueError" /\ cret'.cause # << >>
               /\ cret'.cause # << >>
                     => /\ cret'.kind = "ValueError"
                        /\ SubSeq(cret'.msg, 1, Len(FailedToLoad)) = FailedToLoad
                        /\ \A text \in DiscoveryErrorTexts :
                               cret'.msg = DiscoveryFailureMessage(text)
                        /\ ~Occurs(cret'.cause, cret'.msg)
                        /\ MessageWords(cret'.msg) \cap Secrets = {} ]_vars

\* get_google_credentials has raised after a discovery whose error text
\* quotes a secret.
C19_Witness ==
    /\ cret.op = "get"
    /\ cret.kind = "ValueError"
    /\ MessageWords(cret.cause) \cap Secrets # {}

-----------------------------------------------------------------------------
(* C20 *)

\* The staging file holds, as JSON, the descriptor d, and only its owner can
\* read and write it.
StagedHolds(file, d) ==
    /\ file.exists
    /\ WellFormed(file.content)
    /\ Loads(file.content) = d
    /\ file.mode = "600"

\* C20: prepare_credentials_for_adc on valid inline JSON points the variable
\* at the staging file only once the file holds the validated descriptor of
\* that JSON and is restricted to its owner, changes the variable in no other
\* way, and returns with the variable and the file in that state and the
\* descriptor cleared.
C20_StagedAndPublished ==
    [][ /\ cfg' # cfg
              => /\ cpc = "prepare_staged"
                 /\ IsInline(cfg)
                 /\ ParseAndValidate(cfg).ok
                 /\ StagedHolds(staged, ParseAndValidate(cfg).value)
                 /\ creds_data = ParseAndValidate(cfg).value
                 /\ cfg' = StagedPath
                 /\ staged' = staged
        /\ cpc = "prepare_published" /\ cpc' = "idle"
              => /\ cret' = Cret("prepare", Outcome("ok", << >>, << >>, 0))
                 /\ cfg' = StagedPath
                 /\ StagedHolds(staged', creds_data)
                 /\ DOMAIN creds_data # {}
                 /\ DOMAIN creds_data' = {} ]_vars

\* prepare_credentials_for_adc has returned: the variable names the staging
\* file, which holds a service account descriptor with its secret and is
\* restricted, and the descriptor in memory is empty.
C20_Witness ==
    /\ cret.op = "prepare"
    /\ cret.kind = "ok"
    /\ cfg = StagedPath
    /\ staged.exists
    /\ staged.mode = "600"
    /\ WellFormed(staged.content)
    /\ TypeOf(Loads(staged.content)) = "service_account"
    /\ Loads(staged.content)["private_key"] \in Secrets
    /\ DOMAIN creds_data = {}

(***************************************************************************)
(* C21  prepare_credentials_for_adc on the path of an existing file        *)
(***************************************************************************)

\* The step is a whole call of prepare_credentials_for_adc that starts and
\* ends on a value that is not inline JSON.
PrepareOnPath ==
    /\ cpc = "idle"
    /\ ~IsInline(cfg)
    /\ cret'.op = "prepare"

\* C21: prepare_credentials_for_adc does nothing on the path of an existing
\* file.  Every call made while the variable names an existing file returns
\* silently, leaves the variable as it was and creates or changes no staging
\* file; and while the variable holds the path it started with, no staging
\* file exists and no staging is under way, however many calls were made.
C21_ExistingPathUntouched ==
    /\ [](cfg = ExistingPath
            => /\ staged = NoFile
               /\ cpc \notin {"prepare_parsed", "prepare_opened",
                              "prepare_written", "prepare_staged",
                              "prepare_published"})
    /\ [][ /\ cfg = ExistingPath => cfg' = ExistingPath
           /\ PrepareOnPath /\ cfg \in {ExistingPath, StagedPath}
              /\ (cfg = StagedPath => staged.exists)
                 => /\ cret'.kind = "ok"
                    /\ cfg' = cfg
                    /\ staged' = staged
                    /\ cpc' = "idle" ]_vars

\* A call has returned silently while the variable names the existing file,
\* and there is no staging file.
C21_Witness ==
    /\ cret.op = "prepare"
    /\ cret.kind = "ok"
    /\ cfg = ExistingPath
    /\ staged = NoFile
    /\ cpc = "idle"

(***************************************************************************)
(* C22  prepare_credentials_for_adc on a missing file and on no value      *)
(***************************************************************************)

\* C22: when the variable is unset, and when it holds the path of a file
\* that does not exist, prepare_credentials_for_adc returns without raising
\* and leaves the variable as it was: the call ends with a warning, and
\* neither the variable, nor a staging file, nor the descriptor, nor the
\* cached credential changes.
C22_MissingInputOnlyWarns ==
    [][ PrepareOnPath /\ cfg \in {Unset, MissingPath}
            => /\ cret'.kind = "warning"
               /\ cret'.msg = IF cfg = Unset THEN << "not", "set" >>
                                             ELSE << "not", "found" >>
               /\ cpc' = "idle"
               /\ UNCHANGED <<cfg, staged, creds_data, credentials,
                              pending, defaultCalls>> ]_vars

\* A call on the path of a file that does not exist has returned with the
\* warning, and the variable still holds that path.
C22_Witness ==
    /\ cret.op = "prepare"
    /\ cret.kind = "warning"
    /\ cret.msg = << "not", "found" >>
    /\ cfg = MissingPath
    /\ staged = NoFile
    /\ cpc = "idle"

(***************************************************************************)
(* C23  The order of the checks of a credential text                       *)
(***************************************************************************)

\* The step starts setup_google_credentials or prepare_credentials_for_adc
\* on inline JSON: the text is parsed and validated in this step.
ValidatesInline ==
    /\ cpc = "idle"
    /\ IsInline(cfg)
    /\ cpc' # "idle" \/ cret'.op \in { "setup", "prepare" }

\* The step ends the call with ValueError and the message msg.
RejectsWith(msg) ==
    /\ cret'.kind = "ValueError"
    /\ cret'.msg = msg
    /\ cpc' = "idle"

\* A required field of the variant t is missing from d or empty.
LacksField(d, t) ==
    \E i \in 1 .. 3 :
        \/ RequiredFields(t)[i] \notin DOMAIN d
        \/ d[RequiredFields(t)[i]] = ""

ValidDescriptor(d) ==
    /\ "type" \in DOMAIN d
    /\ \/ /\ d["type"] = "service_account"
          /\ \A k \in { "private_key", "client_email", "project_id" } :
                k \in DOMAIN d /\ d[k] # ""
       \/ /\ d["type"] = "authorized_user"
          /\ \A k \in { "client_id", "client_secret", "refresh_token" } :
                k \in DOMAIN d /\ d[k] # ""

\* C24: the text of every valid service_account or authorized_user
\* descriptor is accepted, and the mapping that comes back is the
\* descriptor: the same type, the same fields, the same values.
C24_ValidDescriptorAccepted ==
    [][ ValidatesInline
            => \A d \in Descriptors :
                  cfg = Dump(d) /\ ValidDescriptor(d)
                      => /\ cpc' \in { "setup_parsed", "prepare_parsed" }
                         /\ cret' = NoCret
                         /\ DOMAIN creds_data' = DOMAIN d
                         /\ \A k \in DOMAIN d : creds_data'[k] = d[k] ]_vars

\* The text of a valid authorized_user descriptor has been parsed: the
\* mapping at hand has the type and the three fields of the text, secrets
\* included.
C24_Witness ==
    /\ cpc \in { "setup_parsed", "prepare_parsed" }
    /\ cfg = Dump(creds_data)
    /\ DOMAIN creds_data
          = { "type", "client_id", "client_secret", "refresh_token" }
    /\ creds_data["type"] = "authorized_user"
    /\ creds_data["client_id"] = "client_id-value"
    /\ creds_data["client_secret"] \in Secrets
    /\ creds_data["refresh_token"] \in Secrets

(***************************************************************************)
(* C25  The constructor validates its argument                             *)
(***************************************************************************)

\* The step is a call of the constructor for manager m.
Constructs(m) ==
    /\ ret'.by = m
    /\ ret'.kind \in { "TypeError", "LockManager" }

\* C25: the constructor called with a lock_file_path that is neither None
\* nor a Path raises TypeError and does nothing else: no directory and no
\* file is created, no lock is asked for, and there is no manager
\* afterwards.  Called without a path it gives a manager on
\* /app/data/oracle.lock with an empty slot.  A manager that does not exist
\* has no file open and no lock.
C25_ConstructorValidates ==
    /\ [](\A m \in Managers :
             lock_file_path[m] = "<none>"
                 => /\ pc[m] \in { "idle", "dead" }
                    /\ ~fdOpen[m]
                    /\ ~lock_file_handle[m]
                    /\ lockOwner # m)
    /\ [][ \A m \in Managers :
              Constructs(m)
                  => /\ lock_file_path[m] = "<none>"
                     /\ ret'.arg.type \notin { "NoneType", "Path" }
                           => /\ ret'.kind = "TypeError"
                              /\ ret'.msg[Len(ret'.msg)] = ret'.arg.type
                              /\ lock_file_path'[m] = "<none>"
                              /\ UNCHANGED <<dirExists, fileExists, content,
                                             lockOwner, fdOpen, fdPos,
                                             lock_file_handle, pc,
                                             lock_file_path>>
                     /\ ret'.arg.type = "NoneType"
                           => /\ ret'.kind = "LockManager"
                              /\ lock_file_path'[m] = "/app/data/oracle.lock"
                              /\ ~lock_file_handle'[m]
                              /\ UNCHANGED <<dirExists, fileExists, content,
                                             lockOwner, fdOpen>> ]_vars

\* The constructor has raised TypeError on the string of a path: there is
\* no manager, no directory and no file.
C25_Witness ==
    /\ ret.kind = "TypeError"
    /\ ret.arg = [type |-> "str", value |-> "/app/data/oracle.lock"]
    /\ lock_file_path[ret.by] = "<none>"
    /\ ~dirExists
    /\ ~fileExists
    /\ lockOwner = 0

(***************************************************************************)
(* C26  A failed metadata write does not fail the acquisition              *)
(***************************************************************************)

\* This step is m's metadata write, and the three lines did not reach the
\* file.
WriteFailedStep(m) ==
    /\ pc[m] = "locked"
    /\ pc'[m] \notin { "locked", "dead" }
    /\ \A ts \in Timestamps :
          content' # WriteAt(content, fdPos[m], Metadata(m, ts))

\* C26: a failure to write the metadata after the lock was obtained does not
\* fail the acquisition.  The failed write raises nothing and leaves the
\* manager with its open file and the lock; from there __enter__ returns
\* successfully with the lock still held; and while the manager is Held,
\* every lock attempt of another manager is refused.
C26_WriteFailureOnlyLogged ==
    [][ \A m \in Managers :
           /\ WriteFailedStep(m)
                 => /\ pc'[m] = "written"
                    /\ ret' = NoRet
                    /\ lockOwner' = m
                    /\ fdOpen'[m]
                    /\ lock_file_handle'[m]
           /\ pc[m] = "written" /\ pc'[m] \notin { "written", "dead" }
                 => /\ pc'[m] = "held"
                    /\ ret' = Ret(m, "acquired", None)
                    /\ lockOwner' = m
                    /\ lock_file_handle'[m]
           /\ \A b \in Managers \ {m} :
                 Held(m) /\ pc[b] = "opened" /\ pc'[b] \notin { "opened", "dead" }
                     => /\ pc'[b] \in { "blocked", "idle" }
                        /\ lockOwner' = m ]_vars

\* A manager is Held, its __enter__ has just returned, and the lock file
\* holds only the first line of its metadata: the write failed half way.
C26_Witness ==
    \E m \in Managers :
        /\ pc[m] = "held"
        /\ ret = Ret(m, "acquired", None)
        /\ lockOwner = m
        /\ content = << "pid", "=" >> \o Str(getpid(m)) \o << NL >>

(***************************************************************************)
(* C27  Acquisition failures that are no contention                        *)
(***************************************************************************)

\* This step ends m's __enter__ with an exception before a lock attempt was
\* refused: mkdir, open or flock raised, and the lock was not found held.
FailsUnexpectedly(m) ==
    /\ pc[m] \in { "idle", "opened" }
    /\ ret'.by = m
    /\ ret'.kind \notin { "none", "info", "True", "False" }

\* C27: when __enter__ fails for a reason other than contention (the
\* directory cannot be created, the file cannot be opened, flock fails with
\* another error), the error of the system call reaches the caller as it is,
\* not as LockAcquisitionError; the file the attempt opened is closed; the
\* slot is empty; the manager holds no lock and is outside its with
\* statement; and the lock of another manager stays where it is.
C27_UnexpectedErrorPropagates ==
    [][ \A m \in Managers :
           FailsUnexpectedly(m)
               => /\ ret'.kind \in { "PermissionError", "OSError" }
                  /\ ret'.kind # "LockAcquisitionError"
                  /\ ~fdOpen'[m]
                  /\ ~lock_file_handle'[m]
                  /\ lockOwner' # m
                  /\ pc'[m] = "idle"
                  /\ lockOwner # m => lockOwner' = lockOwner ]_vars

\* flock has failed with an error that is no contention: the caller has the
\* OSError, the file that was opened for the attempt exists and is closed,
\* the slot is empty and the manager has no lock.
C27_Witness ==
    \E m \in Managers :
        /\ ret = Ret(m, "OSError", None)
        /\ fileExists
        /\ ~fdOpen[m]
        /\ ~lock_file_handle[m]
        /\ lockOwner # m
        /\ pc[m] = "idle"

(***************************************************************************)
(* C28  get_lock_holder_info only reads                                    *)
(***************************************************************************)

\* Manager m can call get_lock_holder_info: it exists and is not inside
\* __enter__ or __exit__.
CanAsk(m) ==
    /\ lock_file_path[m] # "<none>"
    /\ pc[m] \in { "idle", "held" }

\* C28: get_lock_holder_info is read-only and takes no lock.  A call changes
\* neither the lock file (its existence, its content), nor who holds the
\* lock, nor any manager's slot or open file; and it goes ahead in every
\* state, whoever holds the lock: it never waits.
C28_HolderInfoReadOnly ==
    /\ [](\A m \in Managers : CanAsk(m) => Reads(m))
    /\ [][ ret'.kind = "info"
              => UNCHANGED <<dirExists, fileExists, content, lockOwner,
                             fdOpen, fdPos, lock_file_handle, pc,
                             orphan >> ]_vars

\* A manager that holds nothing has been given the holder info while
\* another manager is Held with the lock.
C28_Witness ==
    \E a, b \in Managers :
        /\ a # b
        /\ Held(a)
        /\ lockOwner = a
        /\ ret.by = b
        /\ ret.kind = "info"
        /\ ~ret.info.isNone
        /\ pc[b] = "idle"
        /\ ~fdOpen[b]

(***************************************************************************)
(* C29  get_lock_holder_info never raises                                  *)
(***************************************************************************)

\* This step is a call of get_lock_holder_info by m that ended: with a
\* value, or with the error of the read.
AsksHolderInfo(m) ==
    /\ ret'.by = m
    /\ ret'.kind \in { "info", "UnicodeDecodeError" }

\* C29: get_lock_holder_info never raises.  Every call ends with a value;
\* the value is None when the lock file does not exist; and when the file
\* exists but cannot be read, or holds no key=value line, the value holds
\* no data: it is None or a mapping without keys.
C29_HolderInfoNeverRaises ==
    [][ \A m \in Managers :
           AsksHolderInfo(m)
               => /\ ret'.kind = "info"
                  /\ ~fileExists => ret'.info.isNone
                  /\ Find(content, "=", 1) = 0
                        => ret'.info.isNone \/ DOMAIN ret'.info.md = {}
                  /\ ret'.info.isNone => ret'.info.md = << >> ]_vars

\* The read of a lock file that exists has failed, and the caller has been
\* given None.
C29_Witness ==
    /\ ret.kind = "info"
    /\ ret.info.isNone
    /\ fileExists
    /\ content # << >>

(***************************************************************************)
(* C30  Acquisition creates the missing parent directories                 *)
(***************************************************************************)

\* The parent directory of the lock file does not exist when the managers
\* start, as test_lock_acquisition_creates_parent_directory arranges.
InitMissingDir == LockQuiet /\ CredQuiet

\* Every directory and every file of a behaviour is the work of an
\* __enter__.
SpecMissingDir == InitMissingDir /\ [][Next]_vars

\* C30: __enter__ on a path whose parent directory does not exist creates
\* the directory and the lock file, and goes on like any acquisition: the
\* file is open in the manager's slot, the lock attempt made while the lock
\* is free is granted, and the call returns successfully with the lock.
\* The lock file never exists without its directory, and a manager past its
\* open has the file.
C30_ParentsCreated ==
    /\ [](/\ fileExists => dirExists
          /\ \A m \in Managers :
                pc[m] \in { "opened", "locked", "written", "held" }
                    => fileExists /\ fdOpen[m])
    /\ [][ \A m \in Managers :
              /\ pc[m] = "idle" /\ pc'[m] = "opened" /\ ~dirExists
                    => /\ dirExists'
                       /\ fileExists'
                       /\ content' = << >>
                       /\ fdOpen'[m]
                       /\ lock_file_handle'[m]
              /\ FlockStep(m) /\ lockOwner = 0
                    => pc'[m] = "locked" /\ lockOwner' = m
              /\ pc[m] = "locked" /\ pc'[m] \notin { "locked", "dead" }
                    => pc'[m] = "written" /\ lockOwner' = m
              /\ pc[m] = "written" /\ pc'[m] \notin { "written", "dead" }
                    => /\ pc'[m] = "held"
                       /\ ret' = Ret(m, "acquired", None)
                       /\ lockOwner' = m ]_vars

\* The parent directory, missing at the start, exists with the lock file in
\* it, and the __enter__ of a manager has just returned with the lock and
\* its metadata in the file, while no other manager is in its with
\* statement.
C30_Witness ==
    \E m \in Managers :
        /\ dirExists
        /\ fileExists
        /\ pc[m] = "held"
        /\ ret = Ret(m, "acquired", None)
        /\ fdOpen[m]
        /\ lock_file_handle[m]
        /\ lockOwner = m
        /\ HoldsMetadataOf(content, m)
        /\ \A b \in Managers \ {m} : pc[b] = "idle"

(***************************************************************************)
(* C31  Concurrent acquisitions on a free path                             *)
(***************************************************************************)

\* Manager b's lock attempt has been refused: it is in its handler, or has
\* just raised LockAcquisitionError.
Refused(b) ==
    \/ pc[b] \in { "blocked", "cleanup" }
    \/ ret.by = b /\ ret.kind = "LockAcquisitionError"

\* C31: when managers run __enter__ concurrently on a path whose lock is
\* free, then under every interleaving of their open, flock and write steps
\* exactly one of them succeeds and the others fail with
\* LockAcquisitionError.  Never two have the lock; a manager is refused only
\* while another one has the lock; the first flock on the free lock is
\* granted; a granted __enter__ returns and a refused one raises
\* LockAcquisitionError; and once no __enter__ is running and one has
\* failed, exactly one manager is Held.
C31_ExactlyOneSucceeds ==
    /\ [](/\ \A a, b \in Managers : InLock(a) /\ InLock(b) => a = b
          /\ \A b \in Managers :
                Refused(b) => \E a \in Managers \ {b} :
                                  InLock(a) /\ lockOwner = a
          /\ (\A m \in Managers : pc[m] \in { "idle", "held" })
             /\ (\E b \in Managers : Refused(b))
                => Cardinality({ m \in Managers : pc[m] = "held" }) = 1)
    /\ [][ \A m \in Managers :
              /\ FlockStep(m) /\ lockOwner = 0
                    => pc'[m] = "locked" /\ lockOwner' = m
              /\ pc[m] \in { "locked", "written" } /\ pc'[m] # pc[m]
                    => /\ pc'[m] \in { "written", "held" }
                       /\ lockOwner' = m
                       /\ pc'[m] = "held" => ret' = Ret(m, "acquired", None)
              /\ pc[m] \in { "blocked", "cleanup" } /\ pc'[m] # pc[m]
                    => /\ pc'[m] \in { "cleanup", "idle" }
                       /\ pc'[m] = "idle"
                             => /\ ret'.by = m
                                /\ ret'.kind = "LockAcquisitionError" ]_vars

\* Two managers had the file open at the same time; one has been given the
\* lock and is still inside its __enter__, the other has been refused and
\* has raised LockAcquisitionError.
C31_Witness ==
    \E a, b \in Managers :
        /\ a # b
        /\ pc[a] = "written"
        /\ lockOwner = a
        /\ ret.by = b
        /\ ret.kind = "LockAcquisitionError"
        /\ pc[b] = "idle"
        /\ ~fdOpen[b]

(***************************************************************************)
(* C32  A failed acquisition leaves the lock where it is                   *)
(***************************************************************************)

\* This step is a step of b's __enter__ that opens the file or belongs to
\* the failure of its lock attempt: the refused flock, the handler, the
\* close and the raise.
FailingStep(b) ==
    \/ pc[b] = "idle" /\ pc'[b] = "opened"
    \/ pc[b] = "opened" /\ pc'[b] = "blocked"
    \/ pc[b] = "blocked" /\ pc'[b] = "cleanup"
    \/ pc[b] = "cleanup" /\ pc'[b] = "idle"

\* C32: a failed __enter__ of manager b never changes who holds the lock.
\* If another manager a is Held with the lock, then after every step of b's
\* attempt, the close of b's handle and the raise included, a is still Held
\* with the lock and its open file in its slot; b ends with its handle
\* closed, its slot empty and LockAcquisitionError; and every lock attempt
\* made by another manager while a is Held is refused.
C32_FailedAcquireKeepsOwner ==
    [][ \A a, b \in Managers :
           a # b /\ Held(a) /\ lockOwner = a
               => /\ FailingStep(b)
                        => /\ lockOwner' = a
                           /\ pc'[a] = pc[a]
                           /\ fdOpen'[a]
                           /\ lock_file_handle'[a]
                  /\ pc[b] = "cleanup" /\ pc'[b] = "idle"
                        => /\ ret'.by = b
                           /\ ret'.kind = "LockAcquisitionError"
                           /\ ~fdOpen'[b]
                           /\ ~lock_file_handle'[b]
                  /\ FlockStep(b)
                        => pc'[b] = "blocked" /\ lockOwner' = a ]_vars

\* A manager is Held with the lock while another one, refused, has closed
\* its handle and raised LockAcquisitionError.
C32_Witness ==
    \E a, b \in Managers :
        /\ a # b
        /\ Held(a)
        /\ lockOwner = a
        /\ fdOpen[a]
        /\ lock_file_handle[a]
        /\ ret.by = b
        /\ ret.kind = "LockAcquisitionError"
        /\ ~fdOpen[b]
        /\ ~lock_file_handle[b]
        /\ pc[b] = "idle"

-----------------------------------------------------------------------------
(* C33 *)

\* Manager m is executing neither __enter__ nor __exit__.
AtRest(m) == pc[m] \in {"idle", "held"}

\* C33: whenever a manager is executing neither __enter__ nor __exit__, its
\* slot lock_file_handle is set exactly when it holds the flock lock on the
\* file: a set slot means an open, locked file, and a held lock is held
\* through the file the slot refers to.
C33_SlotIffLockHeld ==
    \A m \in Managers :
        AtRest(m) => /\ lock_file_handle[m] <=> lockOwner = m
                     /\ lock_file_handle[m] => fdOpen[m]
                     /\ lockOwner = m => ~orphan[m]

-----------------------------------------------------------------------------
(* C34 *)

\* This step is the return of the __exit__ that ends manager m's with
\* statement, m having held the lock when __exit__ was called.
ReleaseReturns(m) ==
    pc[m] \in {"exiting", "unlocked"} /\ pc'[m] = "idle" /\ ret'.by = m

\* C34: when the __exit__ of a manager that held the lock returns, whether its
\* unlock and close went through or raised, the manager holds the lock no
\* longer and its slot is empty, so that the lock is free for the flock of the
\* next __enter__ on the path.
C34_ReleaseAlwaysFrees ==
    [][ \A m \in Managers :
           ReleaseReturns(m)
               => /\ lockOwner' # m
                  /\ ~lock_file_handle'[m]
                  /\ ~fdOpen'[m] ]_vars

-----------------------------------------------------------------------------
(* C35 *)

\* This step belongs to an __exit__ of manager b: its unlock, its close, or
\* the whole of an __exit__ called outside of any with statement.
ReleaseStep(b) ==
    \/ pc[b] = "exiting" /\ pc'[b] \in {"unlocked", "idle"}
    \/ pc[b] = "unlocked" /\ pc'[b] = "idle"
    \/ pc[b] = "idle" /\ ret'.by = b /\ ret'.kind \in {"False", "True"}

\* C35: no step of an __exit__ of a manager that does not hold the lock (one
\* that never acquired, whose __enter__ was refused, or whose unlock is done)
\* takes the lock away from another manager that holds it, nor closes that
\* manager's file.
C35_ReleaseSparesOthers ==
    [][ \A b \in Managers :
           ReleaseStep(b) /\ lockOwner \notin {0, b}
               => /\ lockOwner' = lockOwner
                  /\ fdOpen'[lockOwner] = fdOpen[lockOwner]
                  /\ lock_file_handle'[lockOwner]
                         = lock_file_handle[lockOwner] ]_vars

\* Manager a is in its with statement and holds the lock, and an __exit__
\* called on another manager b, which holds nothing, has just returned.
C35_Witness ==
    \E a, b \in Managers :
        /\ a # b
        /\ Held(a)
        /\ lockOwner = a
        /\ lock_file_handle[a]
        /\ ~lock_file_handle[b]
        /\ ret = Ret(b, "False", None)

-----------------------------------------------------------------------------
(* C36 *)

\* This step is the open() of an __enter__ of manager m.
OpenStep(m) == pc[m] \in {"idle", "held"} /\ pc'[m] = "opened"

\* C36: no step removes the lock file or its directory: the open() of an
\* __enter__ leaves the file in place at lock_file_path, and once the file
\* exists it exists after every step, a release and the end of a process
\* included.  So the file a manager has open, and the file the lock is held
\* on, is always the one that lock_file_path names.
C36_LockFileNeverRemoved ==
    /\ [](/\ \A m \in Managers : fdOpen[m] \/ orphan[m] => fileExists
          /\ lockOwner # 0 => fileExists
          /\ fileExists => dirExists)
    /\ [][ /\ fileExists => fileExists'
           /\ dirExists => dirExists'
           /\ \A m \in Managers : OpenStep(m) => fileExists' ]_vars

\* Manager m has acquired the lock, created or reopened the file, written its
\* metadata and released: the lock is free, every file is closed, and the
\* lock file is still there with m's metadata in it.
C36_Witness ==
    \E m \in Managers :
        /\ ret = Ret(m, "normal", None)
        /\ pc[m] = "idle"
        /\ lockOwner = 0
        /\ \A a \in Managers : ~fdOpen[a]
        /\ fileExists
        /\ HoldsMetadataOf(content, m)

====
